---- MODULE Spec2Model ----
(***************************************************************************)
(* A model of app.py, the London house price prediction service:           *)
(*   - coords_from_postcode_area, the postcode -> (lat, lon) lookup;       *)
(*   - download_model_if_needed / load_model, the start-up of a process    *)
(*     instance around the cache file MODEL_PATH;                          *)
(*   - the Flask handlers /health, /, /predict-form and /predict.          *)
(*                                                                         *)
(* Text is a sequence of one-character strings (<<"S","W","1">> is "SW1"). *)
(* Python's None is the value None below.  A float is an integer counting  *)
(* ten-thousandths (51.5018 is 515018), the precision of the table.        *)
(***************************************************************************)
EXTENDS Integers, Sequences, FiniteSets, TLC

VARIABLES
    outcode,      \* argument of the coords_from_postcode_area call under study
    geoPc,        \* "call" before that call has run, "done" after
    geoResult,    \* what the call returned
    \* the remote artifact at MODEL_URL and the cache file at MODEL_PATH
    bodyLen,      \* number of non-empty chunks iter_content yields for the artifact
    artifactOk,   \* whether the complete artifact is a pickle that loads
    fileExists,   \* os.path.exists(MODEL_PATH)
    fileData,     \* the file's chunk slots: 1 a chunk of the artifact, 0 a hole
    \* each process instance
    pc,           \* where the instance is in its start-up, or "serving", or "dead"
    sawFile,      \* what line 35 found: "unchecked", "absent" or "present"
    busyAtCheck,  \* the instances that were writing the file when line 35 ran
    callFetches,  \* HTTP fetches issued by this instance's download_model_if_needed
    offset,       \* chunks this instance's open file object has written
    attached,     \* whether that file object's inode is still the one at MODEL_PATH
    registered,   \* log_transform set on sys.modules["__main__"]
    model,        \* the module global `model`: "none", "predictor" or "corrupt"
    readSnap,     \* the bytes handed to pickle.load (NoSnap before that)
    exitCause,    \* the uncaught exception that ended the instance, or "none"
    \* what an observer of the deployment counts
    fetches,        \* HTTP fetches issued, all calls
    okCallFetches,  \* HTTP fetches issued by calls that returned normally
    restarts,       \* process restarts so far
    deletions,      \* times the cache file was removed from outside
    everOpened,     \* the instances that have opened the cache file for writing
    \* the last request served and its response
    reqJson, reqForm, resp

geoVars == <<outcode, geoPc, geoResult>>
fileVars == <<fileExists, fileData>>
artifactVars == <<bodyLen, artifactOk>>
procVars == <<pc, sawFile, busyAtCheck, callFetches, offset, attached, registered, model,
              readSnap, exitCause>>
countVars == <<fetches, okCallFetches, restarts, deletions, everOpened>>
httpVars == <<reqJson, reqForm, resp>>

vars == <<geoVars, artifactVars, fileVars, procVars, countVars, httpVars>>

----------------------------------------------------------------------------
(* Python values *)

\* None: a one-element sequence no text equals, since the elements of a text
\* are single characters.
None == <<"None">>

LOWERCASE == <<"a","b","c","d","e","f","g","h","i","j","k","l","m",
               "n","o","p","q","r","s","t","u","v","w","x","y","z">>
UPPERCASE == <<"A","B","C","D","E","F","G","H","I","J","K","L","M",
               "N","O","P","Q","R","S","T","U","V","W","X","Y","Z">>
WHITESPACE == {" "}

Range(s) == {s[i] : i \in 1..Len(s)}

\* str.upper(), one character
UpperChar(c) ==
    IF \E i \in 1..Len(LOWERCASE) : LOWERCASE[i] = c
    THEN UPPERCASE[CHOOSE i \in 1..Len(LOWERCASE) : LOWERCASE[i] = c]
    ELSE c

\* str.upper()
Upper(s) == [i \in 1..Len(s) |-> UpperChar(s[i])]

\* str.rstrip(chars): drop trailing characters that are in chars
RECURSIVE RStrip(_, _)
RStrip(s, chars) ==
    IF s # <<>> /\ s[Len(s)] \in chars
    THEN RStrip(SubSeq(s, 1, Len(s) - 1), chars)
    ELSE s

\* str.lstrip(chars)
RECURSIVE LStrip(_, _)
LStrip(s, chars) ==
    IF s # <<>> /\ s[1] \in chars
    THEN LStrip(Tail(s), chars)
    ELSE s

\* str.strip(): leading and trailing whitespace removed
Strip(s) == RStrip(LStrip(s, WHITESPACE), WHITESPACE)

\* s[:n]
Prefix(s, n) == SubSeq(s, 1, IF Len(s) < n THEN Len(s) ELSE n)

----------------------------------------------------------------------------
(* Geocode lookup *)

POSTCODE_COORDS == <<
    << <<"S","W","1">>,     <<515018, -1416>> >>,
    << <<"S","W","3">>,     <<514920, -1669>> >>,
    << <<"S","W","6">>,     <<514759, -2060>> >>,
    << <<"S","W","7">>,     <<514965, -1746>> >>,
    << <<"S","W","8">>,     <<514782, -1369>> >>,
    << <<"S","W","9">>,     <<514653, -1126>> >>,
    << <<"S","E","1">>,     <<515050, -850>>  >>,
    << <<"S","E","1","1">>, <<514880, -1065>> >>,
    << <<"E","C","1">>,     <<515246, -985>>  >>,
    << <<"W","C","2">>,     <<515149, -1236>> >> >>

DEFAULT_LON_LAT == <<515074, -1278>>

TableKeys == {POSTCODE_COORDS[i][1] : i \in 1..Len(POSTCODE_COORDS)}

\* POSTCODE_COORDS[k], for a key k of the table
TableAt(k) ==
    POSTCODE_COORDS[CHOOSE i \in 1..Len(POSTCODE_COORDS) : POSTCODE_COORDS[i][1] = k][2]

\* POSTCODE_COORDS.get(k, default)
DictGet(k, default) == IF k \in TableKeys THEN TableAt(k) ELSE default

\* The characters of the rstrip call of line 23, as written there.
RSTRIP_CHARS == {"A","B","C","D","E","F","G","H","J","K","L","M","N","O","P",
                 "Q","R","S","T","U","V","W","X","Y","Z"}

\* Normalise without the upper-casing
NormaliseNoUpper(s) == Strip(s)

\* oc = outcode.strip().upper()
Normalise(s) == Upper(Strip(s))

\* base = oc if len(oc) <= 3 else oc[:3].rstrip("ABC...")
BaseOf(oc) == IF Len(oc) <= 3 THEN oc ELSE RStrip(Prefix(oc, 3), RSTRIP_CHARS)

\* coords_from_postcode_area(outcode); "not outcode" is true of None and of "".
coords_from_postcode_area(oc) ==
    IF oc = None \/ oc = <<>>
    THEN DEFAULT_LON_LAT
    ELSE DictGet(BaseOf(Normalise(oc)), DEFAULT_LON_LAT)

----------------------------------------------------------------------------
(* The cache file and the start-up of a process instance *)

MaxChunks == 2
MaxRestarts == 2
MaxDeletes == 1

Instances == {"a", "b"}

NoSnap == <<-1>>

\* Every chunk slot up to the artifact's length holds its chunk.
Complete(data) == Len(data) = bodyLen /\ \A i \in 1..Len(data) : data[i] = 1

\* f.write(chunk) on a file object whose position is `at` chunks: the slot is
\* filled; a write past the end of a file another open() truncated leaves a hole.
WriteAt(data, at) ==
    [i \in 1..(IF Len(data) > at + 1 THEN Len(data) ELSE at + 1) |->
        IF i = at + 1 THEN 1
        ELSE IF i <= Len(data) THEN data[i]
        ELSE 0]

\* The outcomes pickle.load can have on `data`: TRUE it returns an object,
\* FALSE it raises.  A pickle ends with its STOP opcode, so a short file raises;
\* a file of full length with holes may load (a hole inside array bytes) or raise.
Unpickle(data) ==
    IF Len(data) < bodyLen THEN {FALSE}
    ELSE IF Complete(data) THEN {artifactOk}
    ELSE {TRUE, FALSE}

\* CacheMiss with the test inverted
CacheMissInverted(exists) == exists

\* line 35: if not os.path.exists(MODEL_PATH)
CacheMiss(exists) == ~exists

\* line 35 and, on a hit, line 45: the call returns without network access
CheckExists(p) ==
    /\ pc[p] = "boot"
    /\ IF CacheMiss(fileExists)
       THEN /\ sawFile' = [sawFile EXCEPT ![p] = "absent"]
            /\ pc' = [pc EXCEPT ![p] = "get"]
       ELSE /\ sawFile' = [sawFile EXCEPT ![p] = "present"]
            /\ pc' = [pc EXCEPT ![p] = "load"]
    /\ busyAtCheck' = [busyAtCheck EXCEPT ![p] = {q \in Instances : pc[q] = "stream"}]
    /\ UNCHANGED <<geoVars, artifactVars, fileVars, callFetches, offset, attached,
                   registered, model, readSnap, exitCause, countVars, httpVars>>

\* lines 37-38: requests.get(..., stream=True, timeout=60); r.raise_for_status()
HttpGet(p) ==
    /\ pc[p] = "get"
    /\ fetches' = fetches + 1
    /\ callFetches' = [callFetches EXCEPT ![p] = @ + 1]
    /\ \E outcome \in {"ok", "bad_status", "net_error"} :
          IF outcome = "ok"
          THEN /\ pc' = [pc EXCEPT ![p] = "open"]
               /\ UNCHANGED exitCause
          ELSE /\ pc' = [pc EXCEPT ![p] = "dead"]
               /\ exitCause' = [exitCause EXCEPT ![p] = "http"]
    /\ UNCHANGED <<geoVars, artifactVars, fileVars, sawFile, busyAtCheck, offset, attached,
                   registered, model, readSnap, okCallFetches, restarts, deletions,
                   everOpened, httpVars>>

\* OpenForWrite with mode "ab": an existing file keeps its bytes
OpenForAppend(p) ==
    /\ pc[p] = "open"
    /\ fileExists' = TRUE
    /\ fileData' = fileData
    /\ attached' = [attached EXCEPT ![p] = TRUE]
    /\ offset' = [offset EXCEPT ![p] = Len(fileData)]
    /\ pc' = [pc EXCEPT ![p] = "stream"]
    /\ everOpened' = everOpened \cup {p}
    /\ UNCHANGED <<geoVars, artifactVars, sawFile, busyAtCheck, callFetches,
                   registered, model, readSnap, exitCause, fetches, okCallFetches,
                   restarts, deletions, httpVars>>

\* line 39: open(MODEL_PATH, "wb") creates the file or truncates it
OpenForWrite(p) ==
    /\ pc[p] = "open"
    /\ fileExists' = TRUE
    /\ fileData' = <<>>
    /\ attached' = [attached EXCEPT ![p] = TRUE]
    /\ offset' = [offset EXCEPT ![p] = 0]
    /\ pc' = [pc EXCEPT ![p] = "stream"]
    /\ everOpened' = everOpened \cup {p}
    /\ UNCHANGED <<geoVars, artifactVars, sawFile, busyAtCheck, callFetches,
                   registered, model, readSnap, exitCause, fetches, okCallFetches,
                   restarts, deletions, httpVars>>

\* lines 40-42: one non-empty chunk arrives and is written (empty ones are skipped)
WriteChunk(p) ==
    /\ pc[p] = "stream"
    /\ offset[p] < bodyLen
    /\ fileData' = IF attached[p] THEN WriteAt(fileData, offset[p]) ELSE fileData
    /\ offset' = [offset EXCEPT ![p] = @ + 1]
    /\ UNCHANGED <<geoVars, artifactVars, fileExists, pc, sawFile, busyAtCheck, callFetches,
                   attached, registered, model, readSnap, exitCause, countVars,
                   httpVars>>

\* line 40: iter_content raises (connection lost, read timeout); the with block
\* closes the file and the exception leaves the call.  Nothing removes the file.
StreamFail(p) ==
    /\ pc[p] = "stream"
    /\ attached' = [attached EXCEPT ![p] = FALSE]
    /\ pc' = [pc EXCEPT ![p] = "dead"]
    /\ exitCause' = [exitCause EXCEPT ![p] = "stream"]
    /\ UNCHANGED <<geoVars, artifactVars, fileVars, sawFile, busyAtCheck, callFetches, offset,
                   registered, model, readSnap, countVars, httpVars>>

\* lines 40-43: the body is exhausted, the file is closed, the call returns
StreamEnd(p) ==
    /\ pc[p] = "stream"
    /\ offset[p] = bodyLen
    /\ attached' = [attached EXCEPT ![p] = FALSE]
    /\ pc' = [pc EXCEPT ![p] = "load"]
    /\ okCallFetches' = okCallFetches + callFetches[p]
    /\ UNCHANGED <<geoVars, artifactVars, fileVars, sawFile, busyAtCheck, callFetches, offset,
                   registered, model, readSnap, exitCause, fetches, restarts,
                   deletions, everOpened, httpVars>>

\* Deserialize with the exceptions of open and pickle.load swallowed
DeserializeIgnoringErrors(p) ==
    /\ pc[p] = "load"
    /\ registered' = [registered EXCEPT ![p] = TRUE]
    /\ readSnap' = [readSnap EXCEPT ![p] = IF fileExists THEN fileData ELSE @]
    /\ model' = [model EXCEPT ![p] =
                    IF fileExists /\ Complete(fileData) /\ artifactOk
                    THEN "predictor" ELSE "none"]
    /\ pc' = [pc EXCEPT ![p] = "loaded"]
    /\ UNCHANGED <<geoVars, artifactVars, fileVars, sawFile, busyAtCheck, callFetches, offset,
                   attached, exitCause, countVars, httpVars>>

\* lines 53-58 and the assignment of line 72: register log_transform, open the
\* cache file and unpickle it; any exception ends the import of the module.
Deserialize(p) ==
    /\ pc[p] = "load"
    /\ registered' = [registered EXCEPT ![p] = TRUE]
    /\ IF ~fileExists
       THEN /\ pc' = [pc EXCEPT ![p] = "dead"]
            /\ exitCause' = [exitCause EXCEPT ![p] = "nofile"]
            /\ UNCHANGED <<model, readSnap>>
       ELSE /\ readSnap' = [readSnap EXCEPT ![p] = fileData]
            /\ \E loads \in Unpickle(fileData) :
                  IF loads
                  THEN /\ model' = [model EXCEPT ![p] =
                                       IF Complete(fileData) THEN "predictor"
                                       ELSE "corrupt"]
                       /\ pc' = [pc EXCEPT ![p] = "loaded"]
                       /\ UNCHANGED exitCause
                  ELSE /\ pc' = [pc EXCEPT ![p] = "dead"]
                       /\ exitCause' = [exitCause EXCEPT ![p] = "unpickle"]
                       /\ UNCHANGED model
    /\ UNCHANGED <<geoVars, artifactVars, fileVars, sawFile, busyAtCheck, callFetches, offset,
                   attached, countVars, httpVars>>

\* AppRun for a server that starts without waiting for load_model
AppRunBeforeLoad(p) ==
    /\ pc[p] \in {"boot", "loaded"}
    /\ pc' = [pc EXCEPT ![p] = "serving"]
    /\ UNCHANGED <<geoVars, artifactVars, fileVars, sawFile, busyAtCheck,
                   callFetches, offset, attached, registered, model, readSnap,
                   exitCause, countVars, httpVars>>

\* lines 241-244: the module is imported, the server starts to accept requests
AppRun(p) ==
    /\ pc[p] = "loaded"
    /\ pc' = [pc EXCEPT ![p] = "serving"]
    /\ UNCHANGED <<geoVars, artifactVars, fileVars, sawFile, busyAtCheck, callFetches, offset,
                   attached, registered, model, readSnap, exitCause, countVars,
                   httpVars>>

\* The deployment starts the program again: a new process, whose module-level
\* code (line 72) runs from the top; only the cache file survives.
Restart(p) ==
    /\ pc[p] \in {"dead", "serving"}
    /\ restarts < MaxRestarts
    /\ restarts' = restarts + 1
    /\ pc' = [pc EXCEPT ![p] = "boot"]
    /\ sawFile' = [sawFile EXCEPT ![p] = "unchecked"]
    /\ busyAtCheck' = [busyAtCheck EXCEPT ![p] = {}]
    /\ callFetches' = [callFetches EXCEPT ![p] = 0]
    /\ offset' = [offset EXCEPT ![p] = 0]
    /\ registered' = [registered EXCEPT ![p] = FALSE]
    /\ model' = [model EXCEPT ![p] = "none"]
    /\ readSnap' = [readSnap EXCEPT ![p] = NoSnap]
    /\ exitCause' = [exitCause EXCEPT ![p] = "none"]
    /\ UNCHANGED <<geoVars, artifactVars, fileVars, attached, fetches,
                   okCallFetches, deletions, everOpened, httpVars>>

\* The cache path is cleared from outside the program.  A file object a writer
\* still holds keeps its unlinked inode: its writes no longer reach MODEL_PATH.
ExternalDelete ==
    /\ fileExists
    /\ deletions < MaxDeletes
    /\ deletions' = deletions + 1
    /\ fileExists' = FALSE
    /\ fileData' = <<>>
    /\ attached' = [p \in Instances |-> FALSE]
    /\ UNCHANGED <<geoVars, artifactVars, pc, sawFile, busyAtCheck, callFetches, offset,
                   registered, model, readSnap, exitCause, fetches, okCallFetches,
                   restarts, everOpened, httpVars>>

Startup(p) ==
    \/ CheckExists(p)
    \/ HttpGet(p)
    \/ OpenForWrite(p)
    \/ WriteChunk(p)
    \/ StreamFail(p)
    \/ StreamEnd(p)
    \/ Deserialize(p)
    \/ AppRun(p)

----------------------------------------------------------------------------
(* Requests: values, float(), the feature row *)

FEATURES == <<"latitude", "longitude", "floorAreaSqM",
              "bedrooms", "bathrooms", "livingRooms",
              "propertyType", "tenure",
              "currentEnergyRating", "postcodeArea">>

\* The fields lines 222 and 236 cast with float()
NUMERIC_FIELDS == <<"latitude", "longitude", "floorAreaSqM", "bedrooms",
                    "bathrooms", "livingRooms">>

\* The name attributes of the inputs of the form in INDEX_HTML
INDEX_HTML_INPUTS == <<"floorAreaSQM", "bedrooms", "bathrooms", "livingRooms",
                       "propertyType", "tenure", "currentEnergyRating",
                       "postcodeArea">>

FormKeys == Range(FEATURES) \cup Range(INDEX_HTML_INPUTS)

\* A JSON value: a number or a string with its text, or null.  "absent" marks a
\* key the payload does not hold.
JNum(t) == [kind |-> "num", text |-> t]
JStr(t) == [kind |-> "str", text |-> t]
JNull == [kind |-> "null", text |-> <<>>]
JAbsent == [kind |-> "absent", text |-> <<>>]

\* A cell of the row given to the predictor: a float, or any other value.
FloatCell(x) == [kind |-> "float", num |-> x, text |-> <<>>]
TextCell(t) == [kind |-> "str", num |-> 0, text |-> t]
NoneCell == [kind |-> "null", num |-> 0, text |-> <<>>]
JsonCell(v) == [kind |-> v.kind, num |-> 0, text |-> v.text]

DIGITS == <<"0","1","2","3","4","5","6","7","8","9">>

IsDigits(s) == \A i \in 1..Len(s) : s[i] \in Range(DIGITS)

DigitValue(c) == (CHOOSE i \in 1..Len(DIGITS) : DIGITS[i] = c) - 1

RECURSIVE DigitsValue(_)
DigitsValue(s) ==
    IF s = <<>> THEN 0
    ELSE 10 * DigitsValue(SubSeq(s, 1, Len(s) - 1)) + DigitValue(s[Len(s)])

RECURSIVE Pow10(_)
Pow10(n) == IF n = 0 THEN 1 ELSE 10 * Pow10(n - 1)

\* float(text) for decimal literals of at most four decimals: surrounding
\* whitespace is dropped, a sign is allowed, then digits with at most one ".".
\* ok is FALSE where float() raises ValueError.
ParseFloat(t) ==
    LET s    == Strip(t)
        neg  == s # <<>> /\ s[1] = "-"
        body == IF s # <<>> /\ s[1] \in {"-", "+"} THEN Tail(s) ELSE s
        dots == {i \in 1..Len(body) : body[i] = "."}
        dot  == IF dots = {} THEN Len(body) + 1 ELSE CHOOSE i \in dots : TRUE
        ip   == SubSeq(body, 1, dot - 1)
        fp   == SubSeq(body, dot + 1, Len(body))
        good == /\ Cardinality(dots) <= 1
                /\ IsDigits(ip) /\ IsDigits(fp)
                /\ Len(ip) + Len(fp) > 0
                /\ Len(fp) <= 4
        mag  == DigitsValue(ip) * 10000 + DigitsValue(fp) * Pow10(4 - Len(fp))
    IN  IF good THEN [ok |-> TRUE, val |-> IF neg THEN 0 - mag ELSE mag]
        ELSE [ok |-> FALSE, val |-> 0]

\* float(v) for a JSON value: a number converts, a string is parsed, null
\* raises TypeError.
FloatOfJson(v) ==
    IF v.kind \in {"num", "str"} THEN ParseFloat(v.text) ELSE [ok |-> FALSE, val |-> 0]

\* FormCast with a ValueError of float() turned into 0.0
FormCastUnparseableToZero(v) ==
    IF v = None \/ v = <<>> \/ ~ParseFloat(v).ok
    THEN [ok |-> TRUE, val |-> 0]
    ELSE ParseFloat(v)

\* line 224: float(v) if v not in ("", None) else 0.0, for a form value
FormCast(v) ==
    IF v = None \/ v = <<>> THEN [ok |-> TRUE, val |-> 0] ELSE ParseFloat(v)

\* line 83: the fitted estimator, a function of the row it is given.
Predictor(X) == 1000000 + X[3].num + X[4].num

\* lines 77-83 for a dict: the row's columns in the order of FEATURES
model_predict(row) == Predictor([i \in 1..Len(FEATURES) |-> row[FEATURES[i]]])

ColumnsOf(row) == [i \in 1..Len(FEATURES) |-> row[FEATURES[i]]]

NoResponse ==
    [kind |-> "none", status |-> 0, model_loaded |-> FALSE, missing |-> <<>>,
     invoked |-> 0, X |-> <<>>, prediction |-> 0, currency |-> ""]

NoJson == [f \in Range(FEATURES) |-> JAbsent]
NoForm == [k \in FormKeys |-> None]

----------------------------------------------------------------------------
(* The Flask handlers, served by an instance whose server is running *)

\* Health reporting the predictor in memory instead of the cache file
HealthReportsPredictor(p) ==
    /\ pc[p] = "serving"
    /\ resp' = [NoResponse EXCEPT !.kind = "health", !.status = 200,
                                  !.model_loaded = (model[p] # "none")]
    /\ reqJson' = NoJson
    /\ reqForm' = NoForm
    /\ UNCHANGED <<geoVars, artifactVars, fileVars, procVars, countVars>>

\* lines 86-88
Health(p) ==
    /\ pc[p] = "serving"
    /\ resp' = [NoResponse EXCEPT !.kind = "health", !.status = 200,
                                  !.model_loaded = fileExists]
    /\ reqJson' = NoJson
    /\ reqForm' = NoForm
    /\ UNCHANGED <<geoVars, artifactVars, fileVars, procVars, countVars>>

\* lines 210-212
Index(p) ==
    /\ pc[p] = "serving"
    /\ resp' = [NoResponse EXCEPT !.kind = "index", !.status = 200]
    /\ reqJson' = NoJson
    /\ reqForm' = NoForm
    /\ UNCHANGED <<geoVars, artifactVars, fileVars, procVars, countVars>>

\* MissingFields stopping at the first absent feature
MissingFirstOnly(payload) ==
    LET all == SelectSeq(FEATURES, LAMBDA f : payload[f].kind = "absent")
    IN  IF all = <<>> THEN <<>> ELSE <<all[1]>>

\* line 231: the features the payload lacks, in the order of FEATURES
MissingFields(payload) ==
    SelectSeq(FEATURES, LAMBDA f : payload[f].kind = "absent")

\* lines 228-239.  An exception of float() leaves the handler: Flask answers 500.
Predict(p, payload) ==
    /\ pc[p] = "serving"
    /\ reqJson' = payload
    /\ reqForm' = NoForm
    /\ LET missing == MissingFields(payload)
           casts   == [k \in Range(NUMERIC_FIELDS) |-> FloatOfJson(payload[k])]
           row     == [k \in Range(FEATURES) |->
                          IF k \in Range(NUMERIC_FIELDS) THEN FloatCell(casts[k].val)
                          ELSE JsonCell(payload[k])]
       IN  IF missing # <<>>
           THEN resp' = [NoResponse EXCEPT !.kind = "predict", !.status = 400,
                                           !.missing = missing]
           ELSE IF \E k \in Range(NUMERIC_FIELDS) : ~casts[k].ok
           THEN resp' = [NoResponse EXCEPT !.kind = "predict", !.status = 500]
           ELSE resp' = [NoResponse EXCEPT !.kind = "predict", !.status = 200,
                                           !.invoked = 1, !.X = ColumnsOf(row),
                                           !.prediction = model_predict(row),
                                           !.currency = "GBP"]
    /\ UNCHANGED <<geoVars, artifactVars, fileVars, procVars, countVars>>

\* lines 214-226.  request.form.get(k) is None for a key the form lacks.
PredictForm(p, form) ==
    /\ pc[p] = "serving"
    /\ reqForm' = form
    /\ reqJson' = NoJson
    /\ LET data   == [k \in Range(FEATURES) \ {"latitude", "longitude"} |-> form[k]]
           coords == coords_from_postcode_area(data["postcodeArea"])
           casts  == [k \in Range(NUMERIC_FIELDS) |->
                         IF k = "latitude" THEN [ok |-> TRUE, val |-> coords[1]]
                         ELSE IF k = "longitude" THEN [ok |-> TRUE, val |-> coords[2]]
                         ELSE FormCast(data[k])]
           row    == [k \in Range(FEATURES) |->
                         IF k \in Range(NUMERIC_FIELDS) THEN FloatCell(casts[k].val)
                         ELSE IF data[k] = None THEN NoneCell
                         ELSE TextCell(data[k])]
       IN  IF \E k \in Range(NUMERIC_FIELDS) : ~casts[k].ok
           THEN resp' = [NoResponse EXCEPT !.kind = "form", !.status = 500]
           ELSE resp' = [NoResponse EXCEPT !.kind = "form", !.status = 200,
                                           !.invoked = 1, !.X = ColumnsOf(row),
                                           !.prediction = model_predict(row)]
    /\ UNCHANGED <<geoVars, artifactVars, fileVars, procVars, countVars>>

----------------------------------------------------------------------------
(* Initial values shared by the specifications *)

InitGeoIdle ==
    /\ outcode = None
    /\ geoPc = "idle"
    /\ geoResult = <<>>

InitArtifact ==
    /\ bodyLen \in 0..MaxChunks
    /\ artifactOk \in BOOLEAN
    /\ bodyLen = 0 => ~artifactOk      \* zero bytes are no pickle

InitFresh ==
    /\ fileExists = FALSE
    /\ fileData = <<>>
    /\ pc = [p \in Instances |-> "boot"]
    /\ sawFile = [p \in Instances |-> "unchecked"]
    /\ busyAtCheck = [p \in Instances |-> {}]
    /\ callFetches = [p \in Instances |-> 0]
    /\ offset = [p \in Instances |-> 0]
    /\ attached = [p \in Instances |-> FALSE]
    /\ registered = [p \in Instances |-> FALSE]
    /\ model = [p \in Instances |-> "none"]
    /\ readSnap = [p \in Instances |-> NoSnap]
    /\ exitCause = [p \in Instances |-> "none"]
    /\ fetches = 0
    /\ okCallFetches = 0
    /\ restarts = 0
    /\ deletions = 0
    /\ everOpened = {}

InitHttpIdle ==
    /\ reqJson = NoJson
    /\ reqForm = NoForm
    /\ resp = NoResponse

----------------------------------------------------------------------------
(* Request inputs *)

Txt50 == <<"5", "0">>
TxtAbc == <<"a", "b", "c">>
TxtFlat == <<"F", "l", "a", "t">>
TxtLeasehold == <<"L", "e", "a", "s", "e", "h", "o", "l", "d">>
TxtSW1 == <<"S", "W", "1">>

\* The payload of the end-to-end example: complete and well typed
GoodJson ==
    [f \in Range(FEATURES) |->
        CASE f = "latitude"            -> JNum(<<"5", "1", ".", "5">>)
          [] f = "longitude"           -> JNum(<<"-", "0", ".", "1", "2">>)
          [] f = "floorAreaSqM"        -> JNum(Txt50)
          [] f = "bedrooms"            -> JNum(<<"2">>)
          [] f = "bathrooms"           -> JNum(<<"1">>)
          [] f = "livingRooms"         -> JNum(<<"1">>)
          [] f = "propertyType"        -> JStr(TxtFlat)
          [] f = "tenure"              -> JStr(TxtLeasehold)
          [] f = "currentEnergyRating" -> JStr(<<"C">>)
          [] f = "postcodeArea"        -> JStr(TxtSW1)]

\* GoodJson, or GoodJson with one numeric field given as a numeric string, as a
\* string that is no number, or as null
JsonProfiles ==
    {GoodJson} \cup
    {[GoodJson EXCEPT ![k] = v] :
        k \in Range(NUMERIC_FIELDS),
        v \in {JStr(<<"2", ".", "5">>), JStr(TxtAbc), JNull}}

\* Every profile with every subset of the keys present
JsonPayloads ==
    {[f \in Range(FEATURES) |-> IF f \in K THEN prof[f] ELSE JAbsent] :
        K \in SUBSET Range(FEATURES), prof \in JsonProfiles}

\* What a numeric form field may hold: absent, empty, numeric text, other text
NumTexts == {None, <<>>, Txt50, <<"1", ".", "5">>, TxtAbc}

PostcodeTexts == {None, <<>>, <<"s", "w", "1">>, <<"S", "E", "1", "1">>}

\* Form bodies: a browser's submission of the INDEX_HTML form (floorAreaSQM) and
\* other clients' (floorAreaSqM, latitude and longitude of their own).
Forms ==
    {[k \in FormKeys |->
        CASE k = "floorAreaSqM"        -> fa
          [] k = "floorAreaSQM"        -> fq
          [] k = "bedrooms"            -> be
          [] k = "bathrooms"           -> ba
          [] k = "livingRooms"         -> li
          [] k = "latitude"            -> own
          [] k = "longitude"           -> own
          [] k = "postcodeArea"        -> po
          [] k = "propertyType"        -> IF cat THEN TxtFlat ELSE None
          [] k = "tenure"              -> IF cat THEN TxtLeasehold ELSE None
          [] k = "currentEnergyRating" -> IF cat THEN <<"C">> ELSE None] :
        fa \in NumTexts, fq \in {None, Txt50}, be \in NumTexts, ba \in NumTexts,
        li \in NumTexts, own \in {None, <<"9">>}, po \in PostcodeTexts,
        cat \in BOOLEAN}

\* A submission of the form rendered by GET /: exactly its inputs, each filled
IsHtmlFormSubmission(form) ==
    \A k \in FormKeys : (form[k] # None) <=> (k \in Range(INDEX_HTML_INPUTS))

FewPayloads == {GoodJson, [GoodJson EXCEPT !["tenure"] = JAbsent]}

FewForms ==
    {form \in Forms :
        /\ IsHtmlFormSubmission(form)
        /\ form["bedrooms"] = Txt50 /\ form["bathrooms"] = Txt50
        /\ form["livingRooms"] = Txt50
        /\ form["postcodeArea"] = <<"s", "w", "1">>}

----------------------------------------------------------------------------
(* Spec: one process instance, from a fresh deployment, with restarts, the     *)
(* cache path cleared from outside, and requests once the server runs         *)

Single == {"a"}

Init == InitGeoIdle /\ InitArtifact /\ InitFresh /\ InitHttpIdle

Next ==
    \/ \E p \in Single :
          \/ Startup(p)
          \/ Restart(p)
          \/ Health(p)
          \/ Index(p)
          \/ \E payload \in FewPayloads : Predict(p, payload)
          \/ \E form \in FewForms : PredictForm(p, form)
    \/ ExternalDelete

Spec == Init /\ [][Next]_vars

----------------------------------------------------------------------------
(* SpecRace: two instances started on the same cold cache path *)

NextRace == \E p \in Instances : Startup(p) \/ Restart(p)

SpecRace == Init /\ [][NextRace]_vars

----------------------------------------------------------------------------
(* SpecServe: an instance after a successful first run, and one request *)

InitServe ==
    /\ InitGeoIdle
    /\ bodyLen = MaxChunks
    /\ artifactOk = TRUE
    /\ fileExists = TRUE
    /\ fileData = [i \in 1..bodyLen |-> 1]
    /\ pc = [p \in Instances |-> IF p \in Single THEN "serving" ELSE "boot"]
    /\ sawFile = [p \in Instances |-> IF p \in Single THEN "absent" ELSE "unchecked"]
    /\ busyAtCheck = [p \in Instances |-> {}]
    /\ callFetches = [p \in Instances |-> IF p \in Single THEN 1 ELSE 0]
    /\ offset = [p \in Instances |-> IF p \in Single THEN bodyLen ELSE 0]
    /\ attached = [p \in Instances |-> FALSE]
    /\ registered = [p \in Instances |-> p \in Single]
    /\ model = [p \in Instances |-> IF p \in Single THEN "predictor" ELSE "none"]
    /\ readSnap = [p \in Instances |-> IF p \in Single THEN fileData ELSE NoSnap]
    /\ exitCause = [p \in Instances |-> "none"]
    /\ fetches = 1
    /\ okCallFetches = 1
    /\ restarts = 0
    /\ deletions = 0
    /\ everOpened = Single
    /\ resp = NoResponse
    /\ \/ reqJson \in JsonPayloads /\ reqForm = NoForm
       \/ reqJson = NoJson /\ reqForm \in Forms

\* The request drawn by InitServe is served, once.
NextServe ==
    \E p \in Single :
       \/ resp.kind = "none" /\ reqJson = NoJson /\ reqForm = NoForm /\ Health(p)
       \/ resp.kind = "none" /\ reqJson = NoJson /\ reqForm = NoForm /\ Index(p)
       \/ resp.kind = "none" /\ reqForm = NoForm /\ Predict(p, reqJson)
       \/ resp.kind = "none" /\ reqJson = NoJson /\ PredictForm(p, reqForm)

SpecServe == InitServe /\ [][NextServe]_vars

----------------------------------------------------------------------------
(* SpecGeo: coords_from_postcode_area as a one-call program *)

MaxLen == 4

GeoAlphabet == {"S", "E", "W", "I", "1", " ", "s", "w", "i"}

RECURSIVE TextsUpTo(_, _)
TextsUpTo(alphabet, n) ==
    IF n = 0 THEN {<<>>}
    ELSE LET shorter == TextsUpTo(alphabet, n - 1)
         IN  shorter \cup {Append(t, c) : t \in {u \in shorter : Len(u) = n - 1},
                                          c \in alphabet}

GeoInputs == TextsUpTo(GeoAlphabet, MaxLen) \cup TableKeys \cup {None}

InitGeo ==
    /\ outcode \in GeoInputs
    /\ geoPc = "call"
    /\ geoResult = <<>>
    /\ bodyLen = 0 /\ artifactOk = FALSE
    /\ InitFresh
    /\ InitHttpIdle

GeoLookup ==
    /\ geoPc = "call"
    /\ geoResult' = coords_from_postcode_area(outcode)
    /\ geoPc' = "done"
    /\ UNCHANGED <<outcode, artifactVars, fileVars, procVars, countVars, httpVars>>

NextGeo == GeoLookup

SpecGeo == InitGeo /\ [][NextGeo]_vars

----------------------------------------------------------------------------
(* Claims about coords_from_postcode_area, under SpecGeo *)

\* The algorithm as specified: trim and upper-case; a key of at most three
\* characters is used as it is, a longer one is cut to three characters and
\* loses every trailing letter A-Z; the table's pair, or the default pair.
SpecifiedGeocode(oc) ==
    IF oc = None \/ oc = <<>> THEN DEFAULT_LON_LAT
    ELSE LET n   == Upper(Strip(oc))
             key == IF Len(n) <= 3 THEN n
                    ELSE RStrip(Prefix(n, 3), Range(UPPERCASE))
         IN  IF key \in TableKeys THEN TableAt(key) ELSE DEFAULT_LON_LAT

\* C6: for every outcode (missing, empty, blank, any mix of letters of either
\* case, digits and spaces) the call returns a pair, the pair the specified
\* algorithm gives, and the pair it returns for the upper-cased outcode.
C6_GeocodeAsSpecified ==
    geoPc = "done" =>
        /\ geoResult = SpecifiedGeocode(outcode)
        /\ geoResult \in {TableAt(k) : k \in TableKeys} \cup {DEFAULT_LON_LAT}
        /\ outcode # None => geoResult = coords_from_postcode_area(Upper(outcode))

\* " sw1" in lower case with a leading blank resolves to the SW1 entry.
C6_Witness ==
    /\ geoPc = "done"
    /\ outcode = <<" ", "s", "w", "1">>
    /\ geoResult = <<515018, -1416>>

\* C9: looking up any key of POSTCODE_COORDS returns the pair recorded for it.
C9_EveryKeyFindsItsEntry ==
    (geoPc = "done" /\ outcode \in TableKeys) => geoResult = TableAt(outcode)

----------------------------------------------------------------------------
(* Claims about the handlers, under SpecServe *)

Col(name) == CHOOSE i \in 1..Len(FEATURES) : FEATURES[i] = name

FORM_NUMERIC == {"floorAreaSqM", "bedrooms", "bathrooms", "livingRooms"}

StillReady == \A p \in Single : pc[p] = "serving" /\ model[p] = "predictor"

\* C3: POST /predict with a JSON object.  With keys absent: 400, the message
\* lists exactly the absent keys, the predictor is not invoked.  With the ten
\* keys present and the six numeric fields JSON numbers: the predictor is
\* invoked once on their values, the answer has a prediction and currency GBP.
\* Either way the instance goes on serving.
C3_PredictValidation ==
    resp.kind = "predict" =>
        LET absent == {f \in Range(FEATURES) : reqJson[f].kind = "absent"}
        IN  /\ StillReady
            /\ absent # {} =>
                  /\ resp.status = 400
                  /\ Range(resp.missing) = absent
                  /\ Len(resp.missing) = Cardinality(absent)
                  /\ resp.invoked = 0
            /\ (absent = {} /\ \A k \in Range(NUMERIC_FIELDS) : reqJson[k].kind = "num") =>
                  /\ resp.status = 200
                  /\ resp.invoked = 1
                  /\ resp.currency = "GBP"
                  /\ resp.prediction = Predictor(resp.X)
                  /\ \A k \in Range(NUMERIC_FIELDS) :
                        resp.X[Col(k)] = FloatCell(ParseFloat(reqJson[k].text).val)

\* Two keys absent, both named in the 400 answer.
C3_Witness ==
    /\ resp.kind = "predict"
    /\ resp.status = 400
    /\ resp.missing = <<"bedrooms", "tenure">>
    /\ resp.invoked = 0

\* What the form path is claimed to give the predictor for a numeric field
ZeroedOrParsed(v) ==
    IF v = None \/ v = <<>> \/ ~ParseFloat(v).ok THEN 0 ELSE ParseFloat(v).val

InputFor(f) == IF f = "floorAreaSqM" THEN "floorAreaSQM" ELSE f

\* C10: for a submission of the form of GET / with numeric text in the numeric
\* inputs, the predictor is given each of the eight inputs under its feature
\* name with the submitted value, and the latitude and longitude of the
\* submitted postcode area.
C10_FormInputsReachPredictor ==
    (/\ resp.kind = "form"
     /\ IsHtmlFormSubmission(reqForm)
     /\ \A f \in FORM_NUMERIC : ParseFloat(reqForm[InputFor(f)]).ok) =>
        /\ resp.status = 200
        /\ \A f \in FORM_NUMERIC :
              resp.X[Col(f)].num = ParseFloat(reqForm[InputFor(f)]).val
        /\ \A f \in {"propertyType", "tenure", "currentEnergyRating", "postcodeArea"} :
              resp.X[Col(f)] = TextCell(reqForm[f])
        /\ resp.X[Col("latitude")].num =
              coords_from_postcode_area(reqForm["postcodeArea"])[1]
        /\ resp.X[Col("longitude")].num =
              coords_from_postcode_area(reqForm["postcodeArea"])[2]

----------------------------------------------------------------------------
(* Claims about the cache file and the start-up, under Spec *)

\* The artifact as iter_content delivers it
Body == [i \in 1..bodyLen |-> 1]

\* download_model_if_needed has just returned to load_model
Returned(p) == pc[p] = "load"

\* C1 as claimed: with the file absent at the call, one fetch is issued and at
\* the return the file exists and is non-empty; with the file present, no fetch;
\* calls that return issue at most one fetch in all.  (No outside deletion.)
C1_ColdFetchLeavesNonEmptyFile ==
    deletions = 0 =>
        /\ \A p \in Single :
              Returned(p) =>
                 /\ sawFile[p] = "absent" =>
                       callFetches[p] = 1 /\ fileExists /\ fileData # <<>>
                 /\ sawFile[p] = "present" =>
                       callFetches[p] = 0 /\ fileExists
        /\ okCallFetches <= 1

C1_AtReturn ==
    deletions = 0 =>
        /\ \A p \in Single :
              Returned(p) =>
                 /\ sawFile[p] \in {"absent", "present"}
                 /\ sawFile[p] = "absent" =>
                       callFetches[p] = 1 /\ fileExists /\ fileData = Body
                 /\ sawFile[p] = "present" =>
                       callFetches[p] = 0 /\ fileExists
        /\ okCallFetches <= 1

\* The step of a call that finds the file present: no fetch, the file as it was
C1_WarmStep ==
    \A p \in Single :
        (sawFile[p] = "unchecked" /\ sawFile'[p] = "present") =>
            /\ fileExists /\ fileExists' /\ fileData' = fileData
            /\ fetches' = fetches
            /\ Returned(p)'

\* C1, amended: as claimed, except that at the return of a call that found the
\* file absent the file exists and holds exactly the chunks of the response
\* body, so it is non-empty if and only if the body is.
C1_CacheContract == []C1_AtReturn /\ [][C1_WarmStep]_vars

\* A second call, after a restart, that found the file of the first call.
C1_Witness ==
    /\ restarts = 1 /\ deletions = 0
    /\ Returned("a")
    /\ sawFile["a"] = "present" /\ callFetches["a"] = 0
    /\ fetches = 1 /\ okCallFetches = 1
    /\ fileData = Body /\ bodyLen = MaxChunks

Uninitialized(p) == pc[p] \in {"boot", "get", "open", "stream", "load"}
Ready(p) == pc[p] \in {"loaded", "serving"}
Terminated(p) == pc[p] = "dead"

HandlerStep(p) ==
    \/ Health(p)
    \/ Index(p)
    \/ \E payload \in FewPayloads : Predict(p, payload)
    \/ \E form \in FewForms : PredictForm(p, form)

C2_States ==
    \A p \in Single :
        /\ Uninitialized(p) \/ Ready(p) \/ Terminated(p)
        /\ Ready(p) =>
              /\ model[p] # "none" /\ registered[p] /\ readSnap[p] # NoSnap
              /\ exitCause[p] = "none"
              /\ sawFile[p] = "absent" => callFetches[p] = 1 /\ offset[p] = bodyLen
              /\ sawFile[p] = "present" => callFetches[p] = 0
              /\ sawFile[p] # "unchecked"
        /\ ~Ready(p) => model[p] = "none"
        /\ Terminated(p) <=> exitCause[p] # "none"

\* Within one process (no restart in the step)
C2_Steps ==
    \A p \in Single :
        /\ restarts' = restarts =>
              /\ Terminated(p) => Terminated(p)'
              /\ Ready(p) => Ready(p)' /\ model'[p] = model[p]
              /\ (Uninitialized(p) /\ Ready(p)') =>
                    pc[p] = "load" /\ fileExists /\ TRUE \in Unpickle(fileData)
        /\ HandlerStep(p) => Ready(p)

\* C2: an instance is uninitialized or ready.  It becomes ready only when the
\* download call has returned and the cache file has unpickled; a failure of
\* either ends the process, which is never ready afterwards; a ready process
\* stays ready with the predictor it loaded; and a request handler runs only in
\* a ready process.
C2_Lifecycle == []C2_States /\ [][C2_Steps]_vars

\* A first run that downloaded, loaded and answered a prediction request.
C2_Witness ==
    /\ restarts = 0
    /\ pc["a"] = "serving" /\ model["a"] = "predictor"
    /\ sawFile["a"] = "absent" /\ callFetches["a"] = 1
    /\ resp.kind = "predict" /\ resp.status = 200

C5_ReadyMeansCached ==
    /\ \A p \in Single : (Ready(p) /\ deletions = 0) => fileExists
    /\ (resp.kind = "health" /\ deletions = 0) => resp.model_loaded

C5_HealthStep ==
    \A p \in Single :
        Health(p) => /\ resp'.model_loaded = fileExists
                     /\ fileExists' = fileExists

\* C5: while the process is ready and nothing has removed the cache file,
\* /health answers model_loaded true; always, the answer is whether the cache
\* file exists at the call, whatever the state of the predictor in memory.
C5_HealthReportsCacheFile == []C5_ReadyMeansCached /\ [][C5_HealthStep]_vars

\* /health after a successful first run
C5_Witness ==
    /\ resp.kind = "health" /\ resp.model_loaded
    /\ deletions = 0
    /\ pc["a"] = "serving" /\ model["a"] = "predictor"

\* A failed download's file: present, short of the artifact, nobody writing it
Truncated ==
    /\ fileExists
    /\ Len(fileData) < bodyLen
    /\ \A p \in Instances : pc[p] # "stream"

C7_AfterFailure ==
    Truncated =>
        \A p \in Single :
            /\ sawFile[p] = "present" => callFetches[p] = 0
            /\ (sawFile[p] = "present" /\ pc[p] \notin {"boot", "load"}) =>
                  /\ readSnap[p] = fileData
                  /\ Terminated(p) /\ exitCause[p] = "unpickle"

C7_Steps ==
    /\ \A p \in Single :
          (pc[p] = "stream" /\ Terminated(p)') =>
              /\ fileExists' = fileExists /\ fileData' = fileData
              /\ fetches' = fetches
    /\ (Truncated /\ deletions' = deletions) =>
          /\ Truncated'
          /\ fileData' = fileData
          /\ fetches' = fetches

\* C7: a download that fails while the body is streamed leaves its file, as far
\* as it was written, at the cache path and fetches nothing more; from then on
\* (unless the file is removed from outside) every call finds the file, fetches
\* nothing and leaves it as it is, and load_model hands the truncated file to
\* pickle.load.
C7_TruncatedFileIsReused == []C7_AfterFailure /\ [][C7_Steps]_vars

\* After the failed download and a restart: the file found, nothing fetched,
\* the truncated bytes unpickled.
C7_Witness ==
    /\ Truncated /\ deletions = 0
    /\ restarts = 1 /\ fetches = 1
    /\ sawFile["a"] = "present" /\ callFetches["a"] = 0
    /\ readSnap["a"] = fileData
    /\ exitCause["a"] = "unpickle"

----------------------------------------------------------------------------
(* Claim about two instances on one cache path, under SpecRace *)

C8_Unguarded ==
    \A p \in Instances :
        /\ busyAtCheck[p] # {} => sawFile[p] = "present"
        /\ sawFile[p] = "present" =>
              /\ fileExists
              /\ callFetches[p] = 0
              /\ pc[p] \notin {"get", "open", "stream"}
        /\ (sawFile[p] = "absent" /\ pc[p] \in {"open", "stream"}) => callFetches[p] = 1
        /\ (readSnap[p] # NoSnap /\ Len(readSnap[p]) < bodyLen) => Terminated(p)

C8_Steps ==
    \A p \in Instances :
        /\ (pc[p] = "boot" /\ pc'[p] # "boot") =>
              /\ sawFile'[p] = (IF fileExists THEN "present" ELSE "absent")
              /\ fetches' = fetches
              /\ fileData' = fileData
        /\ (pc[p] = "load" /\ pc'[p] # "load" /\ fileExists) => readSnap'[p] = fileData
        /\ (pc[p] = "open" /\ pc'[p] # "open") => fileData' = <<>>

\* C8: nothing orders the existence check, the writes and the read of two
\* instances.  An instance whose check runs while the other is writing finds
\* the file, fetches and writes nothing, and unpickles the bytes at the path at
\* that moment; an instance that finds no file fetches and truncates the file
\* whoever else is writing it.  Both races are reachable (C8_Witness).
C8_CheckAndWriteNotAtomic == []C8_Unguarded /\ [][C8_Steps]_vars

\* Both instances have found the file absent, fetched and opened it; then one,
\* restarted, found it while the other was writing, skipped the download and
\* unpickled the incomplete file.
C8_Witness ==
    /\ everOpened = Instances
    /\ fetches >= 2
    /\ \E p \in Instances :
          /\ sawFile[p] = "present" /\ callFetches[p] = 0
          /\ busyAtCheck[p] = Instances \ {p}
          /\ pc[CHOOSE q \in Instances : q # p] = "stream"
          /\ readSnap[p] # NoSnap /\ Len(readSnap[p]) < bodyLen
          /\ exitCause[p] = "unpickle"

====
